---- MODULE Spec2Model ----
(***************************************************************************)
(* A model of the camera-pose engine of rain-rendering:                    *)
(*   src/common/pose.py         geodetic poses, quaternions, relative pose *)
(*   src/config/utils.py        pose files and camera motion velocities    *)
(*   src/config/daedalean.py    per-sequence simulation settings           *)
(*   src/common/annotations.py  image annotations and cable selectors      *)
(*                                                                         *)
(* Floating point values are modelled exactly on a grid where the code's   *)
(* arithmetic is exact: decimal rationals n/d * 10^e plus NaN and the      *)
(* infinities.  Angles are multiples of 90 degrees, so that every sine and *)
(* cosine the code takes (of an angle or of half an angle) lies in         *)
(* Q[sqrt 2], which is modelled exactly as (a + b*sqrt 2)/d.               *)
(***************************************************************************)
EXTENDS Integers, Sequences, FiniteSets, TLC

VARIABLES
    fs,           \* the pose files that exist: path -> the first row of the file
    call,         \* the last call made: operation, arguments, outcome
    annotations,  \* the ImageAnnotations object the last parse returned
    heap,         \* the intrinsic matrices in memory: address -> matrix
    held          \* the addresses intrinsics() returned to its caller, in order

vars == <<fs, call, annotations, heap, held>>

----------------------------------------------------------------------------
(* Bounds of the model *)

MaxTimestamp == 1     \* timestamps are drawn from 0..MaxTimestamp
MaxFrames == 3        \* at most this many timestamps in one call
MaxAltitude == 1      \* altitudes of the pose engine's inputs: 0..MaxAltitude
MaxComponent == 2     \* components of a heading vector: -MaxComponent..MaxComponent
MaxCalls == 3         \* at most this many calls of intrinsics() in a run
MaxQuarterTurns == 1  \* yaw, pitch and roll: 0, 90, ... 90 * MaxQuarterTurns degrees

----------------------------------------------------------------------------
(* Integers *)

Abs(x) == IF x < 0 THEN -x ELSE x

Sign(x) == IF x < 0 THEN -1 ELSE IF x = 0 THEN 0 ELSE 1

RECURSIVE Gcd(_, _)
Gcd(a, b) == IF b = 0 THEN a ELSE Gcd(b, a % b)

RECURSIVE Pow10(_)
Pow10(k) == IF k = 0 THEN 1 ELSE 10 * Pow10(k - 1)

RECURSIVE IsqrtFrom(_, _)
IsqrtFrom(r, s) == IF (r + 1) * (r + 1) > s THEN r ELSE IsqrtFrom(r + 1, s)

----------------------------------------------------------------------------
(* Python runs the statements of a function one after the other: Then      *)
(* evaluates `value` first and hands it on, bound to a name, to the        *)
(* statements that follow it.                                              *)

Then(value, Rest(_)) == CHOOSE result \in {Rest(v) : v \in {value}} : TRUE

----------------------------------------------------------------------------
(* Floats: [k, n, d, e] is n/d * 10^e when k = "fin", NaN when k = "nan",  *)
(* and the infinity of sign n when k = "inf".  Finite values are kept in   *)
(* canonical form (d > 0 coprime to n and to 10, 10 does not divide n), so *)
(* that equal values are equal records.                                    *)

RECURSIVE Canon(_, _, _)
Canon(n, d, e) ==
    IF n = 0 THEN <<0, 1, 0>>
    ELSE IF d < 0 THEN Canon(-n, -d, e)
    ELSE IF d % 2 = 0 THEN Canon(n * 5, d \div 2, e - 1)
    ELSE IF d % 5 = 0 THEN Canon(n * 2, d \div 5, e - 1)
    ELSE IF n % 10 = 0 THEN Canon(n \div 10, d, e + 1)
    ELSE LET g == Gcd(Abs(n), d) IN <<n \div g, d \div g, e>>

Fin(n, d, e) ==
    LET c == Canon(n, d, e) IN [k |-> "fin", n |-> c[1], d |-> c[2], e |-> c[3]]

NaN == [k |-> "nan", n |-> 0, d |-> 1, e |-> 0]

Inf(s) == [k |-> "inf", n |-> s, d |-> 1, e |-> 0]

FromInt(i) == Fin(i, 1, 0)

IsFinite(x) == x.k = "fin"

IsNaN(x) == x.k = "nan"

IsZero(x) == x.k = "fin" /\ x.n = 0

\* the integer a finite float with an integral value stands for
IntOf(x) == x.n * Pow10(x.e)

IsIntegral(x) == x.k = "fin" /\ x.d = 1 /\ x.e >= 0

FNeg(x) == [x EXCEPT !.n = -x.n]

\* IEEE 754 multiplication
FMul(x, y) ==
    IF x.k = "nan" \/ y.k = "nan" THEN NaN
    ELSE IF x.k = "inf" \/ y.k = "inf"
         THEN IF x.n = 0 \/ y.n = 0 THEN NaN ELSE Inf(Sign(x.n) * Sign(y.n))
    ELSE Fin(x.n * y.n, x.d * y.d, x.e + y.e)

\* IEEE 754 division as numpy does it: x/0 is an infinity or NaN, no error
FDiv(x, y) ==
    IF x.k = "nan" \/ y.k = "nan" THEN NaN
    ELSE IF x.k = "inf"
         THEN IF y.k = "inf" THEN NaN
              ELSE Inf(x.n * (IF y.n < 0 THEN -1 ELSE 1))
    ELSE IF y.k = "inf" THEN FromInt(0)
    ELSE IF y.n = 0 THEN (IF x.n = 0 THEN NaN ELSE Inf(Sign(x.n)))
    ELSE Fin(x.n * y.d, x.d * y.n, x.e - y.e)

----------------------------------------------------------------------------
(* Q[sqrt 2]: [a, b, d] is (a + b * sqrt 2) / d, with d > 0 and            *)
(* gcd(a, b, d) = 1.                                                       *)

Surd(a, b, d) ==
    LET g == Gcd(Gcd(Abs(a), Abs(b)), Abs(d))
        s == IF d < 0 THEN -1 ELSE 1
    IN [a |-> s * (a \div g), b |-> s * (b \div g), d |-> s * (d \div g)]

SInt(i) == Surd(i, 0, 1)

SAdd(x, y) == Surd(x.a * y.d + y.a * x.d, x.b * y.d + y.b * x.d, x.d * y.d)

SNeg(x) == Surd(-x.a, -x.b, x.d)

SSub(x, y) == SAdd(x, SNeg(y))

SMul(x, y) == Surd(x.a * y.a + 2 * x.b * y.b, x.a * y.b + x.b * y.a, x.d * y.d)

\* x / y for a rational y # 0
SDivRat(x, y) == Surd(x.a * y.d, x.b * y.d, x.d * y.a)

\* FSub with the sign of the second operand lost: x + y
FSub_sign_lost(x, y) ==
    IF x.k = "nan" \/ y.k = "nan" THEN NaN
    ELSE IF x.k = "inf" \/ y.k = "inf" THEN NaN
    ELSE LET m == IF x.e < y.e THEN x.e ELSE y.e
         IN Fin(x.n * Pow10(x.e - m) * y.d + y.n * Pow10(y.e - m) * x.d,
                x.d * y.d, m)

\* IEEE 754 subtraction
FSub(x, y) ==
    IF x.k = "nan" \/ y.k = "nan" THEN NaN
    ELSE IF x.k = "inf"
         THEN IF y.k = "inf" /\ y.n = x.n THEN NaN ELSE x
    ELSE IF y.k = "inf" THEN Inf(-y.n)
    ELSE LET m == IF x.e < y.e THEN x.e ELSE y.e
         IN Fin(x.n * Pow10(x.e - m) * y.d - y.n * Pow10(y.e - m) * x.d,
                x.d * y.d, m)

----------------------------------------------------------------------------
(* Angles.  A radian value is held as a float in units of pi, so that      *)
(* math.radians is the division by 180 and math.degrees the                *)
(* multiplication by 180.                                                  *)

radians(deg) == FDiv(deg, FromInt(180))

degrees(rad) == FMul(rad, FromInt(180))

\* the number of eighths of a turn (45 degrees) in an angle, modulo 8
EighthTurns(rad) == IntOf(FMul(rad, FromInt(4))) % 8

OnGrid(rad) == IsIntegral(FMul(rad, FromInt(4)))

CosEighth(k) ==
    CASE k % 8 = 0 -> SInt(1)
      [] k % 8 = 1 -> Surd(0, 1, 2)
      [] k % 8 = 2 -> SInt(0)
      [] k % 8 = 3 -> Surd(0, -1, 2)
      [] k % 8 = 4 -> SInt(-1)
      [] k % 8 = 5 -> Surd(0, -1, 2)
      [] k % 8 = 6 -> SInt(0)
      [] k % 8 = 7 -> Surd(0, 1, 2)

cos(rad) == CosEighth(EighthTurns(rad))

sin(rad) == CosEighth(EighthTurns(rad) + 6)

\* the integer a rational integral element of Q[sqrt 2] stands for
SInteger(x) == x.a \div x.d

----------------------------------------------------------------------------------------------------------------------------------------------
(* Vectors and matrices.  On the grid every rotation matrix the code       *)
(* builds is a signed permutation matrix, so vectors and matrices hold     *)
(* integers; quaternions hold elements of Q[sqrt 2].                       *)

Dot(u, v) == u[1] * v[1] + u[2] * v[2] + u[3] * v[3]

\* m @ v
MatVec(m, v) == <<Dot(m[1], v), Dot(m[2], v), Dot(m[3], v)>>

Column(m, j) == <<m[1][j], m[2][j], m[3][j]>>

Row(r, m) == <<Dot(r, Column(m, 1)), Dot(r, Column(m, 2)), Dot(r, Column(m, 3))>>

\* m1 @ m2
MatMul(m1, m2) == <<Row(m1[1], m2), Row(m1[2], m2), Row(m1[3], m2)>>

Quat(w, x, y, z) == [w |-> w, x |-> x, y |-> y, z |-> z]

\* Hamilton product p * q
QMul(p, q) ==
    Quat(SSub(SSub(SSub(SMul(p.w, q.w), SMul(p.x, q.x)), SMul(p.y, q.y)), SMul(p.z, q.z)),
         SSub(SAdd(SAdd(SMul(p.w, q.x), SMul(p.x, q.w)), SMul(p.y, q.z)), SMul(p.z, q.y)),
         SAdd(SAdd(SSub(SMul(p.w, q.y), SMul(p.x, q.z)), SMul(p.y, q.w)), SMul(p.z, q.x)),
         SAdd(SSub(SAdd(SMul(p.w, q.z), SMul(p.x, q.y)), SMul(p.y, q.x)), SMul(p.z, q.w)))

QNorm(q) ==
    SAdd(SAdd(SMul(q.w, q.w), SMul(q.x, q.x)), SAdd(SMul(q.y, q.y), SMul(q.z, q.z)))

QConj(q) == Quat(q.w, SNeg(q.x), SNeg(q.y), SNeg(q.z))

\* 1 / q
QInverse(q) ==
    LET n == QNorm(q)
    IN Quat(SDivRat(q.w, n), SDivRat(SNeg(q.x), n), SDivRat(SNeg(q.y), n),
            SDivRat(SNeg(q.z), n))

\* QDiv with the operands swapped: q / p
QDiv_swapped(p, q) == QMul(q, QInverse(p))

\* p / q, which quaternion defines as p * (1 / q)
QDiv(p, q) == QMul(p, QInverse(q))

\* quaternion.from_rotation_vector(angle * axis) for a unit axis
from_rotation_vector(angle, axis) ==
    LET half == FDiv(angle, FromInt(2))
    IN Quat(cos(half), SMul(sin(half), SInt(axis[1])), SMul(sin(half), SInt(axis[2])),
            SMul(sin(half), SInt(axis[3])))

\* quaternion.as_rotation_matrix(q), which divides by the norm of q
as_rotation_matrix(q) ==
    LET n == QNorm(q)
        Off(u) == SInteger(SDivRat(SMul(SInt(2), u), n))
        Diag(u) == 1 - SInteger(SDivRat(SMul(SInt(2), u), n))
    IN << << Diag(SAdd(SMul(q.y, q.y), SMul(q.z, q.z))),
             Off(SSub(SMul(q.x, q.y), SMul(q.z, q.w))),
             Off(SAdd(SMul(q.x, q.z), SMul(q.y, q.w))) >>,
          << Off(SAdd(SMul(q.x, q.y), SMul(q.z, q.w))),
             Diag(SAdd(SMul(q.x, q.x), SMul(q.z, q.z))),
             Off(SSub(SMul(q.y, q.z), SMul(q.x, q.w))) >>,
          << Off(SSub(SMul(q.x, q.z), SMul(q.y, q.w))),
             Off(SAdd(SMul(q.y, q.z), SMul(q.x, q.w))),
             Diag(SAdd(SMul(q.x, q.x), SMul(q.y, q.y))) >> >>

----------------------------------------------------------------------------
(* src/common/pose.py *)

\* The WGS84 ellipsoid of EPSG:4326, in metres (the polar radius rounded)
WGS84_A == 6378137
WGS84_B == 6356752

GeoPosition(lat, lon, altitude) == [lat |-> lat, lon |-> lon, altitude |-> altitude]

EulerRotation(yaw, pitch, roll) == [yaw |-> yaw, pitch |-> pitch, roll |-> roll]

CameraPose(position, rotation) == [position |-> position, rotation |-> rotation]

NaN3 == <<NaN, NaN, NaN>>

PositionIsFinite(p) == IsFinite(p.lat) /\ IsFinite(p.lon) /\ IsFinite(p.altitude)

RotationIsFinite(r) == IsFinite(r.yaw) /\ IsFinite(r.pitch) /\ IsFinite(r.roll)

\* GeoPosition.to_geodetic_xyz: the WGS84 -> geocentric transform of pyproj,
\* exact at latitudes that are multiples of 90 degrees, where the prime
\* vertical radius is WGS84_A (equator) and the polar term is WGS84_B.
to_geodetic_xyz(self) ==
    IF ~PositionIsFinite(self) THEN NaN3
    ELSE LET phi == radians(self.lat)
             lam == radians(self.lon)
             h == IntOf(self.altitude)
         IN << FromInt((WGS84_A + h) * SInteger(cos(phi)) * SInteger(cos(lam))),
               FromInt((WGS84_A + h) * SInteger(cos(phi)) * SInteger(sin(lam))),
               FromInt((WGS84_B + h) * SInteger(sin(phi))) >>

from_degrees(yaw, pitch, roll) == EulerRotation(radians(yaw), radians(pitch), radians(roll))

in_degrees(self) == EulerRotation(degrees(self.yaw), degrees(self.pitch), degrees(self.roll))

as_quaternion_xyz(self) ==
    Then(from_rotation_vector(self.yaw, <<0, 1, 0>>), LAMBDA yaw_quat :
    Then(as_rotation_matrix(yaw_quat), LAMBDA yaw_matrix :
    Then(from_rotation_vector(self.pitch, MatVec(yaw_matrix, <<1, 0, 0>>)), LAMBDA pitch_quat :
    Then(as_rotation_matrix(pitch_quat), LAMBDA pitch_matrix :
    Then(from_rotation_vector(self.roll,
                              MatVec(MatMul(pitch_matrix, yaw_matrix), <<0, 0, 1>>)),
         LAMBDA roll_quat :
    Then(QMul(roll_quat, pitch_quat), LAMBDA roll_pitch_quat :
    QMul(roll_pitch_quat, yaw_quat)))))))

as_quaternion_frd(self) ==
    LET half(a) == FDiv(a, FromInt(2))
        cos_roll == cos(half(self.roll))
        sin_roll == sin(half(self.roll))
        cos_pitch == cos(half(self.pitch))
        sin_pitch == sin(half(self.pitch))
        cos_yaw == cos(half(self.yaw))
        sin_yaw == sin(half(self.yaw))
        T(a, b, c) == SMul(SMul(a, b), c)
    IN Quat(SAdd(T(cos_roll, cos_pitch, cos_yaw), T(sin_roll, sin_pitch, sin_yaw)),
            SSub(T(sin_roll, cos_pitch, cos_yaw), T(cos_roll, sin_pitch, sin_yaw)),
            SAdd(T(cos_roll, sin_pitch, cos_yaw), T(sin_roll, cos_pitch, sin_yaw)),
            SSub(T(cos_roll, cos_pitch, sin_yaw), T(sin_roll, sin_pitch, cos_yaw)))

is_complete(self) == ~IsNaN(self.position.lat) /\ ~IsNaN(self.position.lon)

Returned(value) == [status |-> "returned", value |-> value, exc |-> ""]

Raised(exc) == [status |-> "raised", value |-> <<>>, exc |-> exc]

\* rotation(ref_pose, current_pose, coord_system, as_matrix)
rotation(ref_pose, current_pose, coord_system, as_matrix) ==
    IF coord_system \notin {"xyz", "frd"} THEN Raised("ValueError")
    ELSE
    Then(IF coord_system = "xyz" THEN as_quaternion_xyz(current_pose.rotation)
         ELSE as_quaternion_frd(current_pose.rotation), LAMBDA current_quaternion :
    Then(IF coord_system = "xyz" THEN as_quaternion_xyz(ref_pose.rotation)
         ELSE as_quaternion_frd(ref_pose.rotation), LAMBDA ref_quaternion :
    Then(QDiv(current_quaternion, ref_quaternion), LAMBDA rot_quaternion :
    IF as_matrix THEN Returned(as_rotation_matrix(rot_quaternion))
    ELSE Returned(rot_quaternion))))

earth_to_ned_local_tangent_plane_rotation(origin_position) ==
    LET phi == radians(origin_position.lat)
        lam == radians(origin_position.lon)
        sin_phi == SInteger(sin(phi))
        cos_phi == SInteger(cos(phi))
        sin_lam == SInteger(sin(lam))
        cos_lam == SInteger(cos(lam))
    IN << << -sin_phi * cos_lam, -sin_phi * sin_lam, cos_phi >>,
          << -sin_lam, cos_lam, 0 >>,
          << -cos_phi * cos_lam, -cos_phi * sin_lam, -sin_phi >> >>

\* frd_translation_to_xyz without the re-ordering
frd_translation_to_xyz_unordered(frd_translation_vector) == frd_translation_vector

frd_translation_to_xyz(frd_translation_vector) ==
    LET forward == frd_translation_vector[1]
        right == frd_translation_vector[2]
        down == frd_translation_vector[3]
    IN <<right, down, forward>>

\* translation(ref_pose, current_pose): a NaN anywhere in the two positions or
\* in the reference rotation reaches every component of the result
translation(ref_pose, current_pose) ==
    Then(to_geodetic_xyz(ref_pose.position), LAMBDA ref_geo_xyz :
    Then(to_geodetic_xyz(current_pose.position), LAMBDA current_geo_xyz :
    Then(<< FSub(current_geo_xyz[1], ref_geo_xyz[1]),
            FSub(current_geo_xyz[2], ref_geo_xyz[2]),
            FSub(current_geo_xyz[3], ref_geo_xyz[3]) >>, LAMBDA xyz_translation :
    IF (\E i \in 1..3 : ~IsFinite(xyz_translation[i]))
       \/ ~RotationIsFinite(ref_pose.rotation)
    THEN NaN3
    ELSE
    Then(earth_to_ned_local_tangent_plane_rotation(ref_pose.position), LAMBDA rot_ltp :
    Then(MatVec(rot_ltp, << IntOf(xyz_translation[1]),
                            IntOf(xyz_translation[2]),
                            IntOf(xyz_translation[3]) >>), LAMBDA translation_ned_ltp :
    Then(QInverse(as_quaternion_frd(ref_pose.rotation)), LAMBDA inverse_ref_quaternion :
    Then(as_rotation_matrix(inverse_ref_quaternion), LAMBDA rot_0 :
    Then(MatVec(rot_0, translation_ned_ltp), LAMBDA translation_frd_ltp :
    Then(frd_translation_to_xyz(translation_frd_ltp), LAMBDA out :
    <<FromInt(out[1]), FromInt(out[2]), FromInt(out[3])>>)))))))))

----------------------------------------------------------------------------
(* src/common/pose.py: EulerRotation.from_direction_xyz.  The components   *)
(* of a normalized integer vector are square roots of rationals: a root    *)
(* [s, q] is s * sqrt q, with s its sign and q a float, NaN after 0/0.     *)
(* arctan2 gives an angle in units of pi: a float when it is a multiple of *)
(* a quarter, else the open interval between two neighbouring multiples.   *)

Root(s, q) == [s |-> IF IsZero(q) THEN 0 ELSE s, q |-> q]

RootOfInt(i) == Root(Sign(i), FromInt(i * i))

RootNaN == [s |-> 0, q |-> NaN]

RootIsNaN(x) == IsNaN(x.q)

\* x < y for finite floats that are not negative; the mantissas of the model
\* stay below 10^4, so that nine decimal exponents apart decide the order
FLess(x, y) ==
    IF y.n = 0 THEN FALSE
    ELSE IF x.n = 0 THEN TRUE
    ELSE IF x.e - y.e > 8 THEN FALSE
    ELSE IF y.e - x.e > 8 THEN TRUE
    ELSE IF x.e >= y.e THEN x.n * Pow10(x.e - y.e) * y.d < y.n * x.d
    ELSE x.n * y.d < y.n * x.d * Pow10(y.e - x.e)

RootNeg(x) == [x EXCEPT !.s = -x.s]

\* x / y, as numpy divides: 0/0 is NaN
RootDiv(x, y) ==
    IF RootIsNaN(x) \/ RootIsNaN(y) \/ (x.s = 0 /\ y.s = 0) THEN RootNaN
    ELSE Root(x.s * y.s, FDiv(x.q, y.q))

RootMul(x, y) ==
    IF RootIsNaN(x) \/ RootIsNaN(y) THEN RootNaN
    ELSE Root(x.s * y.s, FMul(x.q, y.q))

\* x - y where y is zero or equal to x, the two subtractions of a projection
RootSub(x, y) ==
    CASE RootIsNaN(x) \/ RootIsNaN(y) -> RootNaN
      [] y.s = 0 -> x
      [] x = y -> RootOfInt(0)

\* np.dot with a vector of the integers 0 and 1, of which exactly one is 1
RootDot(u, axis) ==
    IF \E i \in 1..3 : RootIsNaN(u[i]) THEN RootNaN
    ELSE u[CHOOSE i \in 1..3 : axis[i] = 1]

\* np.linalg.norm of a vector of roots
RootNorm(u) ==
    IF \E i \in 1..3 : RootIsNaN(u[i]) THEN RootNaN
    ELSE Root(1, FSub(FSub(u[1].q, FNeg(u[2].q)), FNeg(u[3].q)))

\* np.maximum, which hands on a NaN
RootMaximum(x, y) ==
    IF RootIsNaN(x) THEN x
    ELSE IF RootIsNaN(y) THEN y
    ELSE IF x.s < y.s THEN y
    ELSE IF y.s < x.s THEN x
    ELSE IF x.s >= 0 THEN (IF FLess(x.q, y.q) THEN y ELSE x)
    ELSE (IF FLess(x.q, y.q) THEN x ELSE y)

Between(lo, hi) == [k |-> "between", lo |-> lo, hi |-> hi]

\* arctan2(y, x) for x >= 0 and y >= 0, not both zero
arctan2_first_quadrant(y, x) ==
    IF y.s = 0 THEN FromInt(0)
    ELSE IF x.s = 0 THEN Fin(1, 2, 0)
    ELSE IF y.q = x.q THEN Fin(1, 4, 0)
    ELSE IF FLess(y.q, x.q) THEN Between(FromInt(0), Fin(1, 4, 0))
    ELSE Between(Fin(1, 4, 0), Fin(1, 2, 0))

\* pi - angle and -angle
AngleSupplement(angle) ==
    IF angle.k = "between"
    THEN Between(FSub(FromInt(1), angle.hi), FSub(FromInt(1), angle.lo))
    ELSE FSub(FromInt(1), angle)

AngleNeg(angle) ==
    IF angle.k = "between" THEN Between(FNeg(angle.hi), FNeg(angle.lo))
    ELSE FNeg(angle)

\* np.arctan2(y, x), zeros being positive zeros
arctan2(y, x) ==
    IF RootIsNaN(y) \/ RootIsNaN(x) THEN NaN
    ELSE IF y.s = 0 /\ x.s = 0 THEN FromInt(0)
    ELSE IF y.s >= 0 /\ x.s >= 0 THEN arctan2_first_quadrant(y, x)
    ELSE IF y.s >= 0 THEN AngleSupplement(arctan2_first_quadrant(y, RootNeg(x)))
    ELSE IF x.s >= 0 THEN AngleNeg(arctan2_first_quadrant(RootNeg(y), x))
    ELSE AngleNeg(AngleSupplement(arctan2_first_quadrant(RootNeg(y), RootNeg(x))))

\* the floor 1e-8 of the projection's norm
NORM_FLOOR == Root(1, Fin(1, 1, -16))

\* pitch_angle = np.arctan2(- unit_direction[1], xz_projection_norm)
pitch_angle_of(unit_direction, xz_projection_norm) ==
    arctan2(RootNeg(unit_direction[2]), xz_projection_norm)

\* the angles, once the unit direction and the floored norm are known
euler_of_projection(unit_direction, xz_projection, xz_projection_norm) ==
    EulerRotation(arctan2(RootDiv(xz_projection[1], xz_projection_norm),
                          RootDiv(xz_projection[3], xz_projection_norm)),
                  pitch_angle_of(unit_direction, xz_projection_norm),
                  FromInt(0))

\* xz_projection = unit_direction - np.dot(unit_direction, xz_normal) * xz_normal
xz_projection_of(unit_direction, xz_normal) ==
    [i \in 1..3 |-> RootSub(unit_direction[i],
                            RootMul(RootDot(unit_direction, xz_normal),
                                    RootOfInt(xz_normal[i])))]

euler_of_unit_direction(unit_direction, xz_projection) ==
    euler_of_projection(unit_direction, xz_projection,
                        RootMaximum(RootNorm(xz_projection), NORM_FLOOR))

\* EulerRotation.from_direction_xyz(direction), direction a vector of integers
from_direction_xyz(direction) ==
    LET roots == [i \in 1..3 |-> RootOfInt(direction[i])]
        unit_direction == [i \in 1..3 |-> RootDiv(roots[i], RootNorm(roots))]
    IN euler_of_unit_direction(unit_direction,
                               xz_projection_of(unit_direction, <<0, 1, 0>>))

----------------------------------------------------------------------------
(* src/config/utils.py: the camera intrinsics.  Matrices are objects: the  *)
(* heap maps an address to a matrix, a copy is a new address.  An entry of *)
(* a matrix is a decimal <<units, millionths>>.                            *)

None == <<>>

Decimal(units, millionths) == <<units, millionths>>

\* build_intrinsic_matrix(f_x, f_y, x_0, y_0)
build_intrinsic_matrix(f_x, f_y, x_0, y_0) ==
    <<<<f_x, Decimal(0, 0), x_0>>,
      <<Decimal(0, 0), f_y, y_0>>,
      <<Decimal(0, 0), Decimal(0, 0), Decimal(1, 0)>>>>

\* the address of the module's DEFAULT_INTRINSICS and the matrix it is built as
DEFAULT_INTRINSICS == 1

DefaultIntrinsicsMatrix ==
    build_intrinsic_matrix(Decimal(2392, 403520), Decimal(2394, 356632),
                           Decimal(2042, 665689), Decimal(1485, 345314))

\* the memory once config.utils is imported
InitialHeap == <<DefaultIntrinsicsMatrix>>

INTRINSICS_FILEPATH == <<"config", "intrinsics.pkl">>

\* load_pickle(filepath): the object the file holds, built anew by each load
load_pickle(files, filepath) ==
    IF filepath \in DOMAIN files THEN Returned(files[filepath])
    ELSE Raised("FileNotFoundError")

copy_aliased(memory, address) == [heap |-> memory, address |-> address]

\* matrix.copy(): a new object with the entries of the matrix at the address
copy(memory, address) ==
    [heap |-> Append(memory, memory[address]), address |-> Len(memory) + 1]

\* a matrix of the table just unpickled, a new object too
unpickled(memory, matrix) ==
    [heap |-> Append(memory, matrix), address |-> Len(memory) + 1]

\* the outcome of intrinsics() once its matrix is chosen: the address
\* returned, the heap after the call, the lines printed
intrinsics_result(chosen, printed) ==
    [out |-> Returned(chosen.address), heap |-> chosen.heap, io |-> printed]

\* intrinsics(recording, warn), with the table load_pickle returned
intrinsics_lookup(memory, recording_to_intrinsics, recording, warn) ==
    IF recording = None
    THEN intrinsics_result(copy(memory, DEFAULT_INTRINSICS), <<>>)
    ELSE IF recording \in DOMAIN recording_to_intrinsics
    THEN intrinsics_result(unpickled(memory, recording_to_intrinsics[recording]), <<>>)
    ELSE intrinsics_result(copy(memory, DEFAULT_INTRINSICS),
                           IF warn THEN <<<<"print", "WARNING", recording>>>> ELSE <<>>)

\* intrinsics(recording, warn)
intrinsics(files, memory, recording, warn) ==
    IF load_pickle(files, INTRINSICS_FILEPATH).status = "raised"
    THEN [out |-> load_pickle(files, INTRINSICS_FILEPATH), heap |-> memory, io |-> <<>>]
    ELSE intrinsics_lookup(memory, load_pickle(files, INTRINSICS_FILEPATH).value,
                           recording, warn)

----------------------------------------------------------------------------
(* The inputs of the pose engine *)

Angles == {90 * k : k \in 0..MaxQuarterTurns}

Latitudes == {0, 90}

Longitudes == {0, 90}

Altitudes == 0..MaxAltitude

Positions ==
    {GeoPosition(FromInt(lat), FromInt(lon), FromInt(alt)) :
        lat \in Latitudes, lon \in Longitudes, alt \in Altitudes}

Rotations ==
    {from_degrees(FromInt(y), FromInt(p), FromInt(r)) : y \in Angles, p \in Angles, r \in Angles}

ZeroRotation == from_degrees(FromInt(0), FromInt(0), FromInt(0))

\* a pose whose pose file held "nan" as its latitude
NaNPose == CameraPose(GeoPosition(NaN, FromInt(0), FromInt(0)), ZeroRotation)

Origin == GeoPosition(FromInt(0), FromInt(0), FromInt(0))

\* rotation() reads the two orientations only
RotationPoses == {CameraPose(Origin, r) : r \in Rotations}

ReferencePoses == {CameraPose(p, r) : p \in Positions, r \in Rotations} \cup {NaNPose}

\* translation() is called with the current pose in two orientations
CurrentPoses ==
    {CameraPose(p, r) : p \in Positions,
                        r \in {ZeroRotation, from_degrees(FromInt(90), FromInt(90), FromInt(0))}}
    \cup {NaNPose}

CoordSystems == {"xyz", "frd", "ned"}

\* the heading vectors from_direction_xyz is called with, the zero vector too
Directions ==
    {<<x, y, z>> : x \in -MaxComponent..MaxComponent,
                   y \in -MaxComponent..MaxComponent,
                   z \in -MaxComponent..MaxComponent}

\* a call: the operation, its arguments, its outcome, and the file system
\* operations it made, in order
CallIO(op, args, out, io) == [op |-> op, args |-> args, out |-> out, io |-> io]

Call(op, args, out) == CallIO(op, args, out, <<>>)

NoCall == Call("none", <<>>, Returned(<<>>))

----------------------------------------------------------------------------
(* The pose engine as a state machine.  Its functions are pure: a run is   *)
(* one call, made from the initial state, whose outcome the state keeps.   *)

InitPose ==
    /\ fs = <<>>
    /\ call = NoCall
    /\ annotations = <<>>
    /\ heap = InitialHeap
    /\ held = <<>>

Rotation ==
    \E ref_pose \in RotationPoses, current_pose \in RotationPoses,
       coord_system \in CoordSystems, as_matrix \in BOOLEAN :
        /\ call.op = "none"
        /\ call' = Call("rotation", <<ref_pose, current_pose, coord_system, as_matrix>>,
                        rotation(ref_pose, current_pose, coord_system, as_matrix))
        /\ UNCHANGED <<fs, annotations, heap, held>>

Translation ==
    \E ref_pose \in ReferencePoses, current_pose \in CurrentPoses :
        /\ call.op = "none"
        /\ call' = Call("translation", <<ref_pose, current_pose>>,
                        Returned(translation(ref_pose, current_pose)))
        /\ UNCHANGED <<fs, annotations, heap, held>>

FromDirectionXyz ==
    \E direction \in Directions :
        /\ call.op = "none"
        /\ call' = Call("from_direction_xyz", <<direction>>,
                        Returned(from_direction_xyz(direction)))
        /\ UNCHANGED <<fs, annotations, heap, held>>

NextPose == Rotation \/ Translation \/ FromDirectionXyz

SpecPose == InitPose /\ [][NextPose]_vars

----------------------------------------------------------------------------
(* Properties of the pose engine, under SpecPose *)

Zero3 == <<FromInt(0), FromInt(0), FromInt(0)>>

PoseIsFinite(p) == PositionIsFinite(p.position) /\ RotationIsFinite(p.rotation)

TranslationCalled == call.op = "translation"

RotationReturned == call.op = "rotation" /\ call.out.status = "returned"

\* the quaternion of a pose in the convention a rotation() call selected
SelectedQuaternion(pose, coord_system) ==
    IF coord_system = "xyz" THEN as_quaternion_xyz(pose.rotation)
    ELSE as_quaternion_frd(pose.rotation)

\* C8: for every pose P with a finite position and orientation,
\* translation(P, P) is the zero vector, whatever P's yaw, pitch and roll.
C8_SelfTranslationIsZero ==
    (TranslationCalled /\ PoseIsFinite(call.args[1])
        /\ call.args[2].position = call.args[1].position)
    => call.out.value = Zero3

\* C8 witness: translation(P, P) was called at the pole with a turned camera
C8_Witness ==
    /\ TranslationCalled
    /\ call.args[1] = call.args[2]
    /\ call.args[1].position.lat = FromInt(90)
    /\ call.args[1].position.altitude = FromInt(1)
    /\ call.args[1].rotation = from_degrees(FromInt(90), FromInt(90), FromInt(0))
    /\ call.out.value = Zero3

\* C9: rotation(ref, cur, cs) for cs in {"xyz", "frd"} builds both quaternions
\* in the selected convention and returns current / reference: the result
\* composed with the reference quaternion is the current quaternion, and
\* with as_matrix the same relative rotation as a 3x3 matrix.
C9_RotationIsCurrentOverReference ==
    RotationReturned =>
        LET ref_pose == call.args[1]
            current_pose == call.args[2]
            coord_system == call.args[3]
            as_matrix == call.args[4]
            ref_q == SelectedQuaternion(ref_pose, coord_system)
            current_q == SelectedQuaternion(current_pose, coord_system)
        IN /\ coord_system \in {"xyz", "frd"}
           /\ ~as_matrix => QMul(call.out.value, ref_q) = current_q
           /\ as_matrix =>
                MatMul(call.out.value, as_rotation_matrix(ref_q))
                    = as_rotation_matrix(current_q)

\* C9 witness: a relative rotation between two different orientations, for
\* which the two conventions and the two orders of division all differ
C9_Witness ==
    /\ RotationReturned
    /\ call.args[3] = "frd"
    /\ ~call.args[4]
    /\ call.args[1].rotation = from_degrees(FromInt(90), FromInt(0), FromInt(0))
    /\ call.args[2].rotation = from_degrees(FromInt(0), FromInt(90), FromInt(0))
    /\ call.out.value # QDiv(as_quaternion_frd(call.args[1].rotation),
                              as_quaternion_frd(call.args[2].rotation))
    /\ call.out.value # QDiv(as_quaternion_xyz(call.args[2].rotation),
                              as_quaternion_xyz(call.args[1].rotation))

\* the geocentric displacement current - reference of a translation() call
GeocentricDifference(ref_pose, current_pose) ==
    LET r == to_geodetic_xyz(ref_pose.position)
        c == to_geodetic_xyz(current_pose.position)
    IN <<IntOf(c[1]) - IntOf(r[1]), IntOf(c[2]) - IntOf(r[2]), IntOf(c[3]) - IntOf(r[3])>>

\* C10: translation(ref, cur) is the geocentric difference current - reference,
\* rotated to NED at the reference position, then by the inverse of the
\* reference FRD orientation, returned as (right, down, forward): turning
\* (forward, right, down) = (out[3], out[1], out[2]) back by the reference
\* orientation gives the NED displacement; with a reference orientation of
\* zero the result is (east, down, north), and at latitude 0, longitude 0,
\* where north is the geocentric z axis, the z difference appears in out[3]
\* only.  The current pose's rotation does not influence the result.
C10_TranslationIsRightDownForward ==
    (TranslationCalled /\ PoseIsFinite(call.args[1])
        /\ PositionIsFinite(call.args[2].position))
    => LET ref_pose == call.args[1]
           current_pose == call.args[2]
           out == <<IntOf(call.out.value[1]), IntOf(call.out.value[2]),
                    IntOf(call.out.value[3])>>
           diff == GeocentricDifference(ref_pose, current_pose)
           ned == MatVec(earth_to_ned_local_tangent_plane_rotation(ref_pose.position), diff)
       IN /\ \A i \in 1..3 : IsIntegral(call.out.value[i])
          /\ MatVec(as_rotation_matrix(as_quaternion_frd(ref_pose.rotation)),
                    <<out[3], out[1], out[2]>>) = ned
          /\ ref_pose.rotation = ZeroRotation => out = <<ned[2], ned[3], ned[1]>>
          /\ (ref_pose.rotation = ZeroRotation /\ ref_pose.position.lat = FromInt(0)
                /\ ref_pose.position.lon = FromInt(0))
             => out = <<diff[2], -diff[1], diff[3]>>
          /\ call.out.value
                = translation(ref_pose, CameraPose(current_pose.position, ZeroRotation))

\* C10 witness: from the equator, level and facing north, to the pole: the
\* displacement has a north and a down component, out[3] holds the north
\* one, and the current camera is turned
C10_Witness ==
    /\ TranslationCalled
    /\ call.args[1] = CameraPose(Origin, ZeroRotation)
    /\ call.args[2].position = GeoPosition(FromInt(90), FromInt(0), FromInt(1))
    /\ call.args[2].rotation # ZeroRotation
    /\ call.out.value = <<FromInt(0), FromInt(WGS84_A), FromInt(WGS84_B + 1)>>

\* the sign of an angle: of the float, or of every angle of the interval
AngleSign(angle) ==
    IF angle.k = "between"
    THEN (IF angle.hi.n <= 0 THEN -1 ELSE IF angle.lo.n >= 0 THEN 1 ELSE 0)
    ELSE Sign(angle.n)

\* C11: with the world up axis being index 1 (Y), from_direction_xyz gives a
\* negative pitch for every non-zero direction whose up component is
\* negative, a positive pitch when it is positive and pitch 0 when it is
\* zero; roll is always 0 and the direction (0, 0, 1) gives yaw = pitch =
\* roll = 0.
C11_PitchHasTheSignOfTheUpComponent ==
    call.op = "from_direction_xyz" /\ call.args[1] # <<0, 0, 0>> =>
        LET direction == call.args[1]
            euler == call.out.value
        IN /\ IsFinite(euler.pitch) \/ euler.pitch.k = "between"
           /\ AngleSign(euler.pitch) = Sign(direction[2])
           /\ direction[2] = 0 => euler.pitch = FromInt(0)
           /\ euler.roll = FromInt(0)
           /\ direction = <<0, 0, 1>> =>
                euler = EulerRotation(FromInt(0), FromInt(0), FromInt(0))

----------------------------------------------------------------------------
(* src/config/utils.py: pose files and camera motion velocities *)

DEFAULT_SPEED == 60

\* float(s) for the fields the pose files of the model hold
float(s) ==
    CASE s = "0" -> FromInt(0)
      [] s = "3" -> FromInt(3)
      [] s = "4" -> FromInt(4)
      [] s = "90" -> FromInt(90)
      [] s = "nan" -> NaN

\* str(n) of a non-negative integer: its decimal digits
RECURSIVE str(_)
str(n) ==
    LET digit == <<"0", "1", "2", "3", "4", "5", "6", "7", "8", "9">>[(n % 10) + 1]
    IN IF n < 10 THEN <<digit>> ELSE Append(str(n \div 10), digit)

\* poses_folder / recording / f"{timestamp}_pose.csv": the folder and the
\* file name
PosePath(recording, timestamp) == <<recording, Append(timestamp, "_pose.csv")>>

exists_assumed(files, pose_filepath) == TRUE

\* pose_filepath.exists()
exists(files, pose_filepath) == pose_filepath \in DOMAIN files

\* parse_pose(pose_filepath): opening a file that is not there raises
parse_pose(files, pose_filepath) ==
    IF pose_filepath \notin DOMAIN files THEN Raised("FileNotFoundError")
    ELSE LET coordinates_list == files[pose_filepath]
         IN Returned(CameraPose(
                GeoPosition(float(coordinates_list[1]), float(coordinates_list[2]),
                            float(coordinates_list[3])),
                from_degrees(float(coordinates_list[4]), float(coordinates_list[5]),
                             float(coordinates_list[6]))))

\* parse_pose(pose_filepath) if pose_filepath.exists() else None
pose_if_exists(files, pose_filepath) ==
    IF exists(files, pose_filepath) THEN parse_pose(files, pose_filepath)
    ELSE Returned(None)

\* the file system operations of pose_if_exists, in order
pose_if_exists_io(files, pose_filepath) ==
    IF exists(files, pose_filepath)
    THEN << <<"exists", pose_filepath>>, <<"open", pose_filepath>> >>
    ELSE << <<"exists", pose_filepath>> >>

RECURSIVE Concat(_)
Concat(seqs) == IF seqs = <<>> THEN <<>> ELSE Head(seqs) \o Concat(Tail(seqs))

\* sorted(timestamps)
sorted(timestamps) == SortSeq(timestamps, LAMBDA a, b : a < b)

\* np.diff(timestamps): the differences of neighbours, in the order given
diff(timestamps) ==
    [i \in 1..(Len(timestamps) - 1) |-> timestamps[i + 1] - timestamps[i]]

\* np.linalg.norm of a 3-vector; the displacements between the poses of
\* PoseRows have integral norms
norm(vector) ==
    IF \E i \in 1..3 : ~IsFinite(vector[i]) THEN NaN
    ELSE FromInt(IsqrtFrom(0, IntOf(vector[1]) * IntOf(vector[1])
                              + IntOf(vector[2]) * IntOf(vector[2])
                              + IntOf(vector[3]) * IntOf(vector[3])))

\* the displacement in metres between two consecutive poses
displacement(start_pose, end_pose) ==
    IF start_pose # None /\ end_pose # None
    THEN norm(translation(start_pose, end_pose))
    ELSE FromInt(0)

\* velocities_km_per_h[velocities_km_per_h == 0] = DEFAULT_SPEED
replace_zero(velocity) == IF IsZero(velocity) THEN FromInt(DEFAULT_SPEED) ELSE velocity

keep_non_finite(velocity) == velocity

\* velocities_km_per_h[~np.isfinite(velocities_km_per_h)] = DEFAULT_SPEED
replace_non_finite(velocity) ==
    IF ~IsFinite(velocity) THEN FromInt(DEFAULT_SPEED) ELSE velocity

\* the N - 1 velocities in km/h before the substitutions
velocities_km_per_h(poses, timestamps) ==
    LET time_diff == [i \in 1..(Len(timestamps) - 1) |->
                        FMul(FromInt(diff(timestamps)[i]), Fin(1, 1, -9))]
        displacements == [i \in 1..(Len(poses) - 1) |->
                            displacement(poses[i], poses[i + 1])]
        velocities_m_per_s == [i \in 1..(Len(poses) - 1) |->
                                 FDiv(displacements[i], time_diff[i])]
    IN [i \in 1..(Len(poses) - 1) |-> FMul(velocities_m_per_s[i], Fin(36, 1, -1))]

single_timestamp_ignored(timestamps) == FALSE

\* len(timestamps) == 1
single_timestamp(timestamps) == Len(timestamps) = 1

extend_by_last(velocities) == velocities \o <<velocities[Len(velocities)]>>

\* [velocities_km_per_h[0]] + velocities_km_per_h.tolist()
extend_by_first(velocities) == <<velocities[1]>> \o velocities

\* the substitutions and the returned list, or the IndexError of
\* velocities_km_per_h[0] on an empty array
substituted_and_extended(velocities) ==
    IF Len(velocities) = 0 THEN Raised("IndexError")
    ELSE Returned(extend_by_first(
             [i \in 1..Len(velocities) |-> replace_non_finite(replace_zero(velocities[i]))]))

\* compute_camera_motion_velocities(recording, timestamps): the outcome and
\* the file system operations made
compute_camera_motion_velocities(files, recording, timestamps) ==
    IF single_timestamp(timestamps)
    THEN [out |-> Returned(<<FromInt(DEFAULT_SPEED)>>), io |-> <<>>]
    ELSE
    LET pose_filepaths == [i \in 1..Len(timestamps) |->
                             PosePath(recording, str(sorted(timestamps)[i]))]
        loaded == [i \in 1..Len(timestamps) |-> pose_if_exists(files, pose_filepaths[i])]
        io == Concat([i \in 1..Len(timestamps) |->
                        pose_if_exists_io(files, pose_filepaths[i])])
    IN IF \E i \in 1..Len(loaded) : loaded[i].status = "raised"
       THEN [out |-> Raised("FileNotFoundError"), io |-> io]
       ELSE Then([i \in 1..Len(loaded) |-> loaded[i].value], LAMBDA poses :
            [out |-> substituted_and_extended(velocities_km_per_h(poses, timestamps)),
             io |-> io])

----------------------------------------------------------------------------
(* src/config/daedalean.py: the per-sequence settings *)

RAIN_FALLRATE == 10

\* sequence.rfind("/"), as a 0-based index, -1 when there is no separator
RECURSIVE rfind_from(_, _, _)
rfind_from(sequence, char, i) ==
    IF i = 0 THEN -1
    ELSE IF sequence[i] = char THEN i - 1
    ELSE rfind_from(sequence, char, i - 1)

rfind(sequence, char) == rfind_from(sequence, char, Len(sequence))

\* sequence[start:stop] of Python, negative indices counted from the end
Slice(sequence, start, stop) ==
    LET n == Len(sequence)
        Clamp(i) == IF i < 0 THEN (IF n + i < 0 THEN 0 ELSE n + i)
                    ELSE IF i > n THEN n ELSE i
    IN SubSeq(sequence, Clamp(start) + 1, Clamp(stop))

\* f"{sequence[:separator_idx]}/{sequence[separator_idx + 1:]}"
recording_of(sequence) ==
    LET separator_idx == rfind(sequence, "/")
    IN Slice(sequence, 0, separator_idx) \o <<"/">>
         \o Slice(sequence, separator_idx + 1, Len(sequence))

\* settings["sequences"][sequence]["sim_steps"], or the exception of
\* compute_camera_motion_velocities
sim_steps(cam_motion, n_frames) ==
    IF cam_motion.out.status = "raised" THEN cam_motion.out
    ELSE Returned([cam_motion |-> cam_motion.out.value,
                   rain_fallrate |-> [i \in 1..n_frames |-> RAIN_FALLRATE]])

\* the settings of one sequence folder whose rgb frames are listed with the
\* given timestamps
sequence_settings(files, sequence, timestamps) ==
    sim_steps(compute_camera_motion_velocities(files, recording_of(sequence), timestamps),
              Len(timestamps))

\* the exception of the first sequence that raises, or the settings of all
sequences_or_raised(results) ==
    IF \E sequence \in DOMAIN results : results[sequence].status = "raised"
    THEN results[CHOOSE sequence \in DOMAIN results : results[sequence].status = "raised"]
    ELSE Returned([sequence \in DOMAIN results |-> results[sequence].value])

\* settings(): the sequence-wise settings of a dataset folder holding the
\* given sequence folders
settings(files, dataset) ==
    sequences_or_raised([sequence \in DOMAIN dataset |->
                           sequence_settings(files, sequence, dataset[sequence])])

----------------------------------------------------------------------------
(* src/common/annotations.py: the annotations of one image *)

\* str(path) of a relative path: its components joined by "/"
RECURSIVE path_str(_)
path_str(path) ==
    IF path = <<>> THEN <<".">>
    ELSE IF Len(path) = 1 THEN path[1]
    ELSE path_str(SubSeq(path, 1, Len(path) - 1)) \o <<"/">> \o path[Len(path)]

\* path.parent and path.stem; a file name ends with its suffix
parent(path) == SubSeq(path, 1, Len(path) - 1)

stem(path) ==
    LET name == path[Len(path)]
    IN IF name[Len(name)] \in {".png", ".jpg"} THEN SubSeq(name, 1, Len(name) - 1)
       ELSE name

\* _fix_relative_image_path(image_node): a relative path has as many parents
\* as components, the last parent being "."
fix_relative_image_path(image_node) ==
    LET image_path == image_node.name
        parents == Len(image_path)
    IN IF parents = 3 THEN Returned(image_path)
       ELSE IF parents > 3 THEN Returned(SubSeq(image_path, 3, Len(image_path)))
       ELSE Raised("ValueError")

\* the elements of seq that pass a test, in order
Filter(seq, Test(_)) == SelectSeq(seq, Test)

Map(seq, Op(_)) == [i \in 1..Len(seq) |-> Op(seq[i])]

\* ExclusionZone.parse(box_node)
ExclusionZone_parse(box_node) ==
    LET left == float(box_node.xtl)
        top == float(box_node.ytl)
        right == float(box_node.xbr)
        bottom == float(box_node.ybr)
    IN [top_left |-> <<top, left>>, bottom_right |-> <<bottom, right>>,
        polygon |-> <<<<left, top>>, <<right, top>>, <<right, bottom>>, <<left, bottom>>>>]

\* PowerlinePoleType.parse(powerline_pole_node)
PowerlinePoleType_parse(powerline_pole_node) ==
    IF powerline_pole_node.label = "Tower" THEN Returned("TOWER")
    ELSE IF powerline_pole_node.label = "Stick" THEN Returned("STICK")
    ELSE Raised("ValueError")

\* PowerlinePole.parse(powerline_pole_node), for a Tower or a Stick
PowerlinePole_parse(powerline_pole_node) ==
    [top_left |-> <<float(powerline_pole_node.ytl), float(powerline_pole_node.xtl)>>,
     bottom_right |-> <<float(powerline_pole_node.ybr), float(powerline_pole_node.xbr)>>,
     type |-> PowerlinePoleType_parse(powerline_pole_node).value]

\* LineType.parse(polyline_node)
LineType_parse(polyline_node) ==
    IF polyline_node.label = "Cable visible" THEN "VISIBLE_CABLE"
    ELSE IF polyline_node.label = "Cable inferred" THEN "INFERRED_CABLE"
    ELSE "NOT_CABLE"

\* LineType.from_selector(selector)
from_selector(selector) ==
    IF selector = "visible" THEN Returned("VISIBLE_CABLE")
    ELSE IF selector = "all" THEN Returned("VISIBLE_OR_INFERRED")
    ELSE Raised("ValueError")

\* CableLine.parse(polyline_node, line_type)
CableLine_parse(polyline_node, line_type) ==
    LET points == [i \in 1..Len(polyline_node.points) |->
                     <<float(polyline_node.points[i][1]), float(polyline_node.points[i][2])>>]
    IN [points |-> points, line |-> points, type |-> line_type]

is_visible(self) == self.type = "VISIBLE_CABLE"

is_inferred(self) == self.type = "INFERRED_CABLE"

is_visible_or_inferred(self) ==
    \/ self.type = "VISIBLE_CABLE"
    \/ self.type = "INFERRED_CABLE"
    \/ self.type = "VISIBLE_OR_INFERRED"

\* ImageAnnotations.parse(image_node, poses_folder): the outcome and the file
\* system operations made; poses_folder is None or the folder of the pose files
ImageAnnotations_parse(files, image_node, poses_folder) ==
    Then(fix_relative_image_path(image_node), LAMBDA fixed :
    IF fixed.status = "raised" THEN [out |-> fixed, io |-> <<>>]
    ELSE
    Then(fixed.value, LAMBDA relative_image_path :
    Then(Map(Filter(image_node.boxes, LAMBDA box : box.label = "Exclusion"),
             ExclusionZone_parse), LAMBDA exclusion_zones :
    Then(Map(Filter(image_node.boxes,
                    LAMBDA box : box.label = "Tower" \/ box.label = "Stick"),
             PowerlinePole_parse), LAMBDA powerline_poles :
    Then(Map(Filter(image_node.polylines,
                    LAMBDA polyline : LineType_parse(polyline) # "NOT_CABLE"),
             LAMBDA polyline : CableLine_parse(polyline, LineType_parse(polyline))),
         LAMBDA cable_lines :
    Then(PosePath(path_str(parent(relative_image_path)), stem(relative_image_path)),
         LAMBDA pose_filepath :
    Then(IF poses_folder # None THEN pose_if_exists(files, pose_filepath)
         ELSE Returned(None), LAMBDA pose :
    Then(IF poses_folder # None THEN pose_if_exists_io(files, pose_filepath)
         ELSE <<>>, LAMBDA io :
    IF pose.status = "raised" THEN [out |-> pose, io |-> io]
    ELSE [out |-> Returned([relative_image_path |-> relative_image_path,
                            exclusion_zones |-> exclusion_zones,
                            powerline_poles |-> powerline_poles,
                            cable_lines |-> cable_lines,
                            pose |-> pose.value]),
          io |-> io]))))))))

cables_defaulting(self, selector) ==
    IF selector = "visible" THEN Returned(Filter(self.cable_lines, is_visible))
    ELSE IF selector = "inferred" THEN Returned(Filter(self.cable_lines, is_inferred))
    ELSE Returned(Filter(self.cable_lines, is_visible_or_inferred))

\* ImageAnnotations.cables(selector)
cables(self, selector) ==
    IF selector = "visible" THEN Returned(Filter(self.cable_lines, is_visible))
    ELSE IF selector = "inferred" THEN Returned(Filter(self.cable_lines, is_inferred))
    ELSE IF selector = "all"
    THEN Returned(Filter(self.cable_lines, is_visible_or_inferred))
    ELSE Raised("ValueError")

----------------------------------------------------------------------------
(* The pose files, and the calls of the velocity estimation *)

Timestamps == 0..MaxTimestamp

\* the first rows of the pose files: latitude, longitude, altitude, yaw,
\* pitch, roll
PoseRows == {<<"0", "0", "0", "0", "0", "0">>,
             <<"0", "0", "3", "90", "0", "0">>,
             <<"nan", "0", "4", "0", "0", "0">>}

\* the sequence folders of a dataset and the recordings they name
SequenceNames == {<<"a", "b">>}

Recordings == {recording_of(sequence) : sequence \in SequenceNames}

PosePaths == {PosePath(recording, str(timestamp)) :
                recording \in Recordings, timestamp \in Timestamps}

RECURSIVE SeqsUpTo(_, _)
SeqsUpTo(S, n) ==
    IF n = 0 THEN {<<>>}
    ELSE LET shorter == SeqsUpTo(S, n - 1)
         IN shorter \cup {Append(s, x) : s \in {t \in shorter : Len(t) = n - 1}, x \in S}

\* the timestamps of a call, in any order, with repetitions
TimestampLists == SeqsUpTo(Timestamps, MaxFrames)

\* a dataset folder: each sequence folder with the timestamps of its frames
\* in the order the listing gives them
Datasets == UNION {[names -> TimestampLists] : names \in SUBSET SequenceNames}

FileSystems == UNION {[paths -> PoseRows] : paths \in SUBSET PosePaths}

InitVelocity ==
    /\ fs \in FileSystems
    /\ call = NoCall
    /\ annotations = <<>>
    /\ heap = InitialHeap
    /\ held = <<>>

ComputeCameraMotionVelocities ==
    /\ call.op = "none"
    /\ \E recording \in Recordings, timestamps \in TimestampLists :
         LET result == compute_camera_motion_velocities(fs, recording, timestamps)
         IN call' = CallIO("compute_camera_motion_velocities",
                           <<recording, timestamps>>, result.out, result.io)
    /\ UNCHANGED <<fs, annotations, heap, held>>

Settings ==
    /\ call.op = "none"
    /\ \E dataset \in Datasets :
         call' = Call("settings", <<dataset>>, settings(fs, dataset))
    /\ UNCHANGED <<fs, annotations, heap, held>>

----------------------------------------------------------------------------
(* The image nodes, and the calls on annotations *)

Polyline(label) == [label |-> label, points |-> <<<<"0", "0">>, <<"3", "4">>>>]

Box(label) == [label |-> label, xtl |-> "0", ytl |-> "0", xbr |-> "3", ybr |-> "4"]

\* the name attribute of an image node: directories, then the frame file
ImageNames ==
    {directories \o <<Append(str(timestamp), ".png")>> :
        directories \in {<<<<"a", "b">>>>,
                         <<<<"a">>, <<"a", "b">>>>,
                         <<<<"x">>, <<"a">>, <<"a", "b">>>>,
                         <<<<"x">>, <<"y">>, <<"a">>, <<"a", "b">>>>},
        timestamp \in Timestamps}

PolylineLists == {<<>>,
                  <<Polyline("Cable visible"), Polyline("Pole"), Polyline("Cable inferred")>>,
                  <<Polyline("Cable inferred"), Polyline("Cable visible"),
                    Polyline("Cable visible")>>}

ImageNodes ==
    {[name |-> name, polylines |-> polylines,
      boxes |-> <<Box("Tower"), Box("Exclusion"), Box("Other"), Box("Stick")>>] :
        name \in ImageNames, polylines \in PolylineLists}

PosesFolders == {None, <<"poses">>}

Selectors == {"visible", "inferred", "all", "hidden", ""}

Parse ==
    /\ call.op = "none"
    /\ \E image_node \in ImageNodes, poses_folder \in PosesFolders :
         LET result == ImageAnnotations_parse(fs, image_node, poses_folder)
         IN /\ call' = CallIO("parse", <<image_node, poses_folder>>, result.out, result.io)
            /\ annotations' = IF result.out.status = "returned" THEN result.out.value
                              ELSE annotations
    /\ UNCHANGED <<fs, heap, held>>

Cables ==
    /\ call.op = "parse"
    /\ annotations # None
    /\ \E selector \in Selectors :
         call' = Call("cables", <<selector>>, cables(annotations, selector))
    /\ UNCHANGED <<fs, annotations, heap, held>>

FromSelector ==
    /\ call.op = "none"
    /\ \E selector \in Selectors :
         call' = Call("from_selector", <<selector>>, from_selector(selector))
    /\ UNCHANGED <<fs, annotations, heap, held>>

NextVelocity == ComputeCameraMotionVelocities \/ Settings \/ Parse

SpecVelocity == InitVelocity /\ [][NextVelocity]_vars

NextSelectors == Rotation \/ Parse \/ Cables \/ FromSelector

SpecSelectors == InitPose /\ [][NextSelectors]_vars

----------------------------------------------------------------------------
(* Properties of the velocity estimation, under SpecVelocity *)

CcmvCalled == call.op = "compute_camera_motion_velocities"

CcmvReturned == CcmvCalled /\ call.out.status = "returned"

CcmvRecording == call.args[1]

CcmvTimestamps == call.args[2]

\* the pose the pose file of a timestamp holds, None without a pose file
PoseOf(recording, timestamp) ==
    IF PosePath(recording, str(timestamp)) \in DOMAIN fs
    THEN parse_pose(fs, PosePath(recording, str(timestamp))).value
    ELSE None

\* the pose of the k-th smallest timestamp of the call
SortedPose(k) == PoseOf(CcmvRecording, sorted(CcmvTimestamps)[k])

\* metres over nanoseconds, in km/h
KmPerH(metres, nanoseconds) ==
    FMul(FDiv(metres, FMul(FromInt(nanoseconds), Fin(1, 1, -9))), Fin(36, 1, -1))

Degenerate(velocity) == IsZero(velocity) \/ ~IsFinite(velocity)

Substituted(velocity) ==
    IF Degenerate(velocity) THEN FromInt(DEFAULT_SPEED) ELSE velocity

\* the velocity of the k-th interval over the time between the k-th and the
\* (k+1)-th smallest timestamp
SortedIntervalVelocity(k) ==
    KmPerH(displacement(SortedPose(k), SortedPose(k + 1)),
           sorted(CcmvTimestamps)[k + 1] - sorted(CcmvTimestamps)[k])

\* the velocity of the k-th interval over the time between the k-th and the
\* (k+1)-th timestamp in the order they were passed
IntervalVelocity(k) ==
    KmPerH(displacement(SortedPose(k), SortedPose(k + 1)),
           CcmvTimestamps[k + 1] - CcmvTimestamps[k])

\* C1: with two or more timestamps in any order, the k-th velocity is that
\* of the poses of the k-th and (k+1)-th smallest timestamps over the time
\* between those same two timestamps, so no elapsed time is negative and the
\* order of the timestamps passed does not matter.
C1_VelocityPairsPosesWithTheirElapsedTime ==
    CcmvReturned /\ Len(CcmvTimestamps) >= 2 =>
        \A k \in 1..(Len(CcmvTimestamps) - 1) :
            call.out.value[k + 1] = Substituted(SortedIntervalVelocity(k))

\* C2: for every list of N timestamps, the empty list included, the call
\* returns a list of exactly N speeds, and in settings() cam_motion is as long
\* as rain_fallrate, one entry per frame.
C2_ReturnsOneSpeedPerTimestamp ==
    /\ CcmvCalled =>
         /\ call.out.status = "returned"
         /\ Len(call.out.value) = Len(CcmvTimestamps)
    /\ call.op = "settings" =>
         /\ call.out.status = "returned"
         /\ \A sequence \in DOMAIN call.args[1] :
              /\ Len(call.out.value[sequence].cam_motion) = Len(call.args[1][sequence])
              /\ Len(call.out.value[sequence].rain_fallrate) = Len(call.args[1][sequence])

\* C3: with two or more timestamps no returned speed is zero, NaN or
\* infinite: a velocity that is zero or not finite is replaced by 60, every
\* other velocity is returned as displacement / elapsed seconds * 3.6.
C3_NoZeroOrNonFiniteSpeed ==
    CcmvCalled /\ Len(CcmvTimestamps) >= 2 =>
        /\ call.out.status = "returned"
        /\ \A i \in 1..Len(call.out.value) :
             IsFinite(call.out.value[i]) /\ ~IsZero(call.out.value[i])
        /\ \A k \in 1..(Len(CcmvTimestamps) - 1) :
             call.out.value[k + 1] =
                 IF Degenerate(IntervalVelocity(k)) THEN FromInt(60)
                 ELSE IntervalVelocity(k)

\* a call in which one velocity was not finite and another was kept
C3_Witness ==
    /\ CcmvReturned
    /\ Len(CcmvTimestamps) >= 3
    /\ \E k \in 1..(Len(CcmvTimestamps) - 1) : ~IsFinite(IntervalVelocity(k))
    /\ \E k \in 1..(Len(CcmvTimestamps) - 1) : ~Degenerate(IntervalVelocity(k))

\* every read of a pose file directly follows the check that it exists
ExistsCheckedBeforeRead(io) ==
    \A j \in 1..Len(io) :
        io[j][1] = "open" =>
            /\ j > 1
            /\ io[j - 1] = <<"exists", io[j][2]>>
            /\ io[j][2] \in DOMAIN fs

\* the pose file ImageAnnotations.parse looks for
AnnotationsPosePath ==
    PosePath(path_str(parent(annotations.relative_image_path)),
             stem(annotations.relative_image_path))

\* C4: a missing pose file is never an error: both functions check that the
\* file exists before reading it, an absent file gives the pose None, and
\* every pair with an absent pose gets the speed 60.
C4_MissingPoseFileIsNotAnError ==
    /\ call.op \in {"compute_camera_motion_velocities", "parse"} =>
         /\ call.out.exc # "FileNotFoundError"
         /\ ExistsCheckedBeforeRead(call.io)
    /\ CcmvCalled /\ Len(CcmvTimestamps) >= 2 =>
         /\ call.out.status = "returned"
         /\ \A k \in 1..(Len(CcmvTimestamps) - 1) :
              SortedPose(k) = None \/ SortedPose(k + 1) = None =>
                  call.out.value[k + 1] = FromInt(60)
    /\ call.op = "parse" /\ call.out.status = "returned" /\ call.args[2] # None =>
         IF AnnotationsPosePath \in DOMAIN fs
         THEN annotations.pose = parse_pose(fs, AnnotationsPosePath).value
         ELSE annotations.pose = None

\* a call with a pair of which one pose file is missing and the other is not
C4_Witness ==
    /\ CcmvReturned
    /\ Len(CcmvTimestamps) >= 2
    /\ \E k \in 1..(Len(CcmvTimestamps) - 1) :
         /\ SortedPose(k) = None
         /\ SortedPose(k + 1) # None
         /\ CcmvTimestamps[k] # CcmvTimestamps[k + 1]

\* C5: with exactly one timestamp the result is [60], for every recording and
\* timestamp, and no pose file is checked for or read.
C5_SingleTimestampGivesDefaultSpeed ==
    CcmvCalled /\ Len(CcmvTimestamps) = 1 =>
        /\ call.out = Returned(<<FromInt(60)>>)
        /\ call.io = <<>>

\* a call with one timestamp whose pose file exists
C5_Witness ==
    /\ CcmvReturned
    /\ Len(CcmvTimestamps) = 1
    /\ PosePath(CcmvRecording, str(CcmvTimestamps[1])) \in DOMAIN fs

\* C6: with N >= 2 timestamps the result has N elements, the first two are
\* the first velocity after substitution, and element i + 1 is the
\* substituted velocity of interval i; the first element is 60 when the first
\* interval was degenerate.
C6_FirstVelocityIsDuplicated ==
    CcmvCalled /\ Len(CcmvTimestamps) >= 2 =>
        /\ call.out.status = "returned"
        /\ Len(call.out.value) = Len(CcmvTimestamps)
        /\ call.out.value[1] = call.out.value[2]
        /\ call.out.value[1] = Substituted(IntervalVelocity(1))
        /\ \A i \in 1..(Len(CcmvTimestamps) - 1) :
             call.out.value[i + 1] = Substituted(IntervalVelocity(i))
        /\ Degenerate(IntervalVelocity(1)) => call.out.value[1] = FromInt(60)

\* a call whose first interval was degenerate and whose second was not
C6_Witness ==
    /\ CcmvReturned
    /\ Len(CcmvTimestamps) = 3
    /\ Degenerate(IntervalVelocity(1))
    /\ ~Degenerate(IntervalVelocity(2))
    /\ call.out.value[1] = FromInt(60)
    /\ call.out.value[3] # FromInt(60)

----------------------------------------------------------------------------
(* Properties of the selectors, under SpecSelectors *)

\* C7: an unrecognized selector raises ValueError and gives no result: in
\* rotation() any coord_system but "xyz" and "frd", in cables() any selector
\* but "visible", "inferred" and "all", in from_selector() any selector it
\* does not know.
C7_UnrecognizedSelectorRaises ==
    /\ call.op = "rotation" /\ call.args[3] \notin {"xyz", "frd"} =>
         call.out = Raised("ValueError")
    /\ call.op = "cables" /\ call.args[1] \notin {"visible", "inferred", "all"} =>
         call.out = Raised("ValueError")
    /\ call.op = "from_selector" /\ call.args[1] \notin {"visible", "all"} =>
         call.out = Raised("ValueError")

\* cables() called with an unknown selector on annotations that hold cables
C7_Witness ==
    /\ call.op = "cables"
    /\ call.args[1] = "hidden"
    /\ call.out.status = "raised"
    /\ Len(annotations.cable_lines) > 0

----------------------------------------------------------------------------
(* The intrinsics lookup as a state machine: a caller calls intrinsics()   *)
(* and writes into the matrices it was handed.                             *)

\* a matrix of a recording, other than the default one
RecordedIntrinsicsMatrix ==
    build_intrinsic_matrix(Decimal(2400, 0), Decimal(2400, 500000),
                           Decimal(2048, 0), Decimal(1500, 0))

IntrinsicsRecordings == {recording_of(<<"a", "b">>), recording_of(<<"c">>)}

\* the tables intrinsics.pkl may hold: recording -> matrix
IntrinsicsTables ==
    UNION {[recordings -> {RecordedIntrinsicsMatrix}] :
             recordings \in SUBSET {recording_of(<<"a", "b">>)}}

\* what a caller does to a matrix it holds: it scales the focal lengths away
Overwritten(matrix) ==
    [matrix EXCEPT ![1][1] = Decimal(0, 0), ![2][2] = Decimal(0, 0)]

InitIntrinsics ==
    /\ \E table \in IntrinsicsTables : fs = (INTRINSICS_FILEPATH :> table)
    /\ call = NoCall
    /\ annotations = <<>>
    /\ heap = InitialHeap
    /\ held = <<>>

Intrinsics ==
    /\ Len(held) < MaxCalls
    /\ \E recording \in IntrinsicsRecordings \cup {None}, warn \in BOOLEAN :
         LET result == intrinsics(fs, heap, recording, warn)
         IN /\ call' = CallIO("intrinsics", <<recording, warn>>, result.out, result.io)
            /\ heap' = result.heap
            /\ held' = IF result.out.status = "returned"
                       THEN Append(held, result.out.value) ELSE held
    /\ UNCHANGED <<fs, annotations>>

Mutate ==
    /\ \E i \in 1..Len(held) :
         /\ heap[held[i]] # Overwritten(heap[held[i]])
         /\ heap' = [heap EXCEPT ![held[i]] = Overwritten(heap[held[i]])]
         /\ call' = Call("mutate", <<held[i]>>, Returned(None))
    /\ UNCHANGED <<fs, annotations, held>>

NextIntrinsics == Intrinsics \/ Mutate

SpecIntrinsics == InitIntrinsics /\ [][NextIntrinsics]_vars

----------------------------------------------------------------------------
(* Properties of the intrinsics lookup, under SpecIntrinsics *)

\* C12: after any calls of intrinsics() and any writes of the caller into
\* the matrices returned, DEFAULT_INTRINSICS is unchanged; a call with
\* recording None or with a recording that has no entry returns a matrix
\* equal to the default, a recording with an entry gets its entry, and a
\* warning is printed exactly when warn is set and a recording that is not
\* None has no entry.
C12_DefaultIntrinsicsAreNeverChanged ==
    /\ heap[DEFAULT_INTRINSICS] = DefaultIntrinsicsMatrix
    /\ call.op = "intrinsics" =>
         LET recording == call.args[1]
             warn == call.args[2]
             table == fs[INTRINSICS_FILEPATH]
             has_entry == recording # None /\ recording \in DOMAIN table
         IN /\ call.out.status = "returned"
            /\ call.out.value # DEFAULT_INTRINSICS
            /\ heap[call.out.value] = IF has_entry THEN table[recording]
                                      ELSE DefaultIntrinsicsMatrix
            /\ (call.io # <<>>) <=> (warn /\ recording # None /\ ~has_entry)

\* the default was asked for again after the caller had overwritten a
\* default matrix it got earlier
C12_Witness ==
    /\ call.op = "intrinsics"
    /\ call.args[1] = None
    /\ \E i \in 1..(Len(held) - 1) :
         heap[held[i]] = Overwritten(DefaultIntrinsicsMatrix)
    /\ heap[call.out.value] = DefaultIntrinsicsMatrix

====
